---- MODULE Spec2Model ----
(***************************************************************************)
(* Conversation orchestration and AI gateway of the chatbot backend:       *)
(*   api/v1/chatbot.py                  the request handlers               *)
(*   crud/crud_chatbot.py               the store adapter                  *)
(*   core/services/openrouter_service.py  the gateway client               *)
(*                                                                         *)
(* Every `await` of a handler is a point where another request may run, so *)
(* a chat turn is a process whose steps are the store and gateway calls it *)
(* awaits.  The persistence library and the schema validation are outside  *)
(* the source tree: a create stores the record the handler passes, a get   *)
(* returns it, an update overwrites the fields it names, and each of them  *)
(* commits on its own.                                                     *)
(*                                                                         *)
(* Texts are sequences of character codes; the empty sequence is the empty *)
(* string, which the handlers treat like an absent value (`if not x`).     *)
(* A conversation id of 0 is the absent id (`if not conversation_id`).     *)
(***************************************************************************)
EXTENDS Integers, Sequences, FiniteSets, TLC

VARIABLES
    conversations,      \* table chat_conversation: id (the index) -> row
    messages,           \* table chat_message, in insertion order
    now,                \* the wall clock, in ticks
    last_request_time,  \* OpenRouterService.last_request_time
    turn,               \* the send_chat_message requests, one record each
    resp,               \* the response of the latest conversation request
    ops,                \* the number of conversation requests served
    listing             \* the GET /models and GET /health requests, one record each

vars == <<conversations, messages, now, last_request_time, turn, resp, ops, listing>>

----------------------------------------------------------------------------
(* Bounds of the model *)

\* clock ticks per second
TicksPerSecond == 1

\* the clock stops here
MaxTime == 2

\* the conversation requests (detail, update, delete) served
MaxOps == 2

\* the chat requests, numbered in the order they arrive
Turns == {1, 2}

Users == {"u1", "u2"}

\* the messages that other chat turns insert while a turn runs
MaxCrowd == 10

\* a conversation of earlier turns holds ContextLimit - HistoryMargin or
\* ContextLimit + HistoryMargin messages
HistoryMargin == 2

\* the message searches served
MaxSearches == 1

\* the requests to GET /models and GET /health, numbered in the order of arrival
Listings == {1, 2}

\* users are interchangeable: the one whose request arrives first is u1
Callers(t) == IF t = 1 THEN {"u1"} ELSE Users

----------------------------------------------------------------------------
(* Program constants *)

\* title = request.message[:100]
TitleLimit == 100

\* self.rate_limit_delay = 1.0 (seconds)
rate_limit_delay == 1 * TicksPerSecond

\* get_recent_context(limit=10)
ContextLimit == 10

\* the status of a response that raises nothing
HTTP_200_OK == 200

HTTP_400_BAD_REQUEST == 400

HTTP_404_NOT_FOUND == 404

HTTP_500_INTERNAL_SERVER_ERROR == 500

ACTIVE == "active"

ARCHIVED == "archived"

DELETED == "deleted"

ConversationStatus == {ACTIVE, ARCHIVED, DELETED}

USER == "user"

ASSISTANT == "assistant"

SYSTEM == "system"

----------------------------------------------------------------------------
(* Inputs *)

TextOf(n) == [i \in 1..n |-> i]

\* request.message: at the title limit, and one character beyond it
MessageTexts == {TextOf(TitleLimit), TextOf(TitleLimit + 1)}

\* the content of a provider completion
AiText == <<7>>

NoText == <<>>

\* request.system_message
SystemTexts == {NoText, <<9>>}

\* a title and a system prompt given to update_conversation
NewTitle == <<8>>

NewPrompt == <<5>>

\* "..." appended to a truncated title
Ellipsis == <<46, 46, 46>>

----------------------------------------------------------------------------
(* The store adapter: crud_chat_conversation, crud_chat_message *)

Min(a, b) == IF a < b THEN a ELSE b

Reverse(s) == [i \in 1..Len(s) |-> s[Len(s) + 1 - i]]

\* the indexes of the rows of chat_message with this conversation_id
MessagesOf(msgs, conversation_id) ==
    {i \in DOMAIN msgs : msgs[i].conversation_id = conversation_id}

MaxOf(S) == CHOOSE x \in S : \A y \in S : y <= x

\* crud_chat_conversation.get(id=...): is there a row with this id
Exists(convs, conversation_id) == conversation_id \in DOMAIN convs

\* crud_chat_conversation.create: status and the aggregates take the column defaults
NewConversation(user_id, title) ==
    [user_id |-> user_id, title |-> title, status |-> ACTIVE,
     system_prompt |-> NoText, message_count |-> 0, last_message_at |-> 0]

\* crud_chat_message.create: created_at is the clock at the insert
NewMessage(conversation_id, role, content, metadata, t) ==
    [conversation_id |-> conversation_id, role |-> role, content |-> content,
     metadata |-> metadata, created_at |-> now, turn |-> t]

\* update_conversation_stats, the SELECT count(id), max(created_at)
ConversationStats(msgs, conversation_id) ==
    LET own == MessagesOf(msgs, conversation_id)
    IN  [message_count |-> Cardinality(own),
         last_message_at |->
             IF own = {} THEN 0 ELSE MaxOf({msgs[i].created_at : i \in own})]

\* WithStats with an UPDATE that has no WHERE: every row takes the aggregates
WithStatsEverywhere(convs, conversation_id, stats) ==
    [c \in DOMAIN convs |->
        [convs[c] EXCEPT !.message_count = stats.message_count,
                         !.last_message_at = stats.last_message_at]]

\* update_conversation_stats, the UPDATE of the two aggregates
WithStats(convs, conversation_id, stats) ==
    IF Exists(convs, conversation_id)
    THEN [convs EXCEPT ![conversation_id].message_count = stats.message_count,
                       ![conversation_id].last_message_at = stats.last_message_at]
    ELSE convs

\* the sequences of k rows of `own` by created_at descending: each next row
\* is one of the newest that are left
RECURSIVE NewestFirst(_, _, _)
NewestFirst(msgs, own, k) ==
    IF k = 0
    THEN {<<>>}
    ELSE LET newest == {m \in own : \A o \in own : msgs[o].created_at <= msgs[m].created_at}
         IN  UNION {{<<m>> \o s : s \in NewestFirst(msgs, own \ {m}, k - 1)} : m \in newest}

\* RecentContext without the limit
RecentContextUnlimited(msgs, conversation_id, limit) ==
    LET own == MessagesOf(msgs, conversation_id)
    IN  NewestFirst(msgs, own, Cardinality(own))

\* get_recent_context: the results ORDER BY created_at DESC LIMIT limit can
\* give; rows with equal created_at come in either order
RecentContext(msgs, conversation_id, limit) ==
    LET own == MessagesOf(msgs, conversation_id)
    IN  NewestFirst(msgs, own, Min(limit, Cardinality(own)))

\* get_with_messages: the conversation with its messages, for its owner only
GetWithMessages(convs, msgs, conversation_id, user_id) ==
    IF Exists(convs, conversation_id) /\ convs[conversation_id].user_id = user_id
    THEN [rows |-> <<convs[conversation_id]>>,
          messages |-> SelectSeq(msgs, LAMBDA m : m.conversation_id = conversation_id)]
    ELSE [rows |-> <<>>, messages |-> <<>>]

\* the lower case of a character code (ILIKE compares without case)
Lower(c) == IF c \in 65..90 THEN c + 32 ELSE c

\* the character codes of the wildcards of LIKE
AnyString == 37

AnyCharacter == 95

\* pattern from position i matches text from position j: `%` stands for any
\* string, `_` for any one character, every other character for itself in
\* either case
RECURSIVE LikeAt(_, _, _, _)
LikeAt(pattern, text, i, j) ==
    IF i > Len(pattern)
    THEN j > Len(text)
    ELSE IF pattern[i] = AnyString
         THEN \/ i = Len(pattern)
              \/ \E k \in j..(Len(text) + 1) : LikeAt(pattern, text, i + 1, k)
         ELSE /\ j <= Len(text)
              /\ pattern[i] = AnyCharacter \/ Lower(pattern[i]) = Lower(text[j])
              /\ LikeAt(pattern, text, i + 1, j + 1)

\* content.ilike(f"%{search_query}%")
ILike(content, search_query) ==
    LikeAt(<<AnyString>> \o search_query \o <<AnyString>>, content, 1, 1)

\* SearchMessages without the join on the owner of the conversation
SearchMessagesAnyOwner(convs, msgs, user_id, search_query, skip, limit) ==
    LET matching == {i \in DOMAIN msgs : ILike(msgs[i].content, search_query)}
        upto == Min(skip + limit, Cardinality(matching))
    IN  {SubSeq(s, skip + 1, upto) : s \in NewestFirst(msgs, matching, upto)}

\* search_messages: the results the SELECT can give, the rows of the user's
\* conversations whose content matches, ORDER BY created_at DESC OFFSET skip
\* LIMIT limit; rows with equal created_at come in either order
SearchMessages(convs, msgs, user_id, search_query, skip, limit) ==
    LET matching == {i \in DOMAIN msgs :
                        /\ Exists(convs, msgs[i].conversation_id)
                        /\ convs[msgs[i].conversation_id].user_id = user_id
                        /\ ILike(msgs[i].content, search_query)}
        upto == Min(skip + limit, Cardinality(matching))
    IN  {SubSeq(s, skip + 1, upto) : s \in NewestFirst(msgs, matching, upto)}

\* the sum of f over the set S
RECURSIVE Sum(_, _)
Sum(f, S) ==
    IF S = {}
    THEN 0
    ELSE LET x == CHOOSE y \in S : TRUE
         IN  f[x] + Sum(f, S \ {x})

\* get_user_stats: the user's conversations, the active ones and the sum of
\* their stored message counts from chat_conversation; the messages by role
\* from chat_message joined with the user's conversations
GetUserStats(convs, msgs, user_id) ==
    LET own == {c \in DOMAIN convs : convs[c].user_id = user_id}
        by(role) == Cardinality({i \in DOMAIN msgs :
                                    /\ msgs[i].conversation_id \in own
                                    /\ msgs[i].role = role})
    IN  [total_conversations |-> Cardinality(own),
         active_conversations |-> Cardinality({c \in own : convs[c].status = ACTIVE}),
         total_messages |-> Sum([c \in own |-> convs[c].message_count], own),
         user_messages |-> by(USER),
         assistant_messages |-> by(ASSISTANT),
         system_messages |-> by(SYSTEM)]

----------------------------------------------------------------------------
(* The gateway client: OpenRouterService *)

\* the bodies the provider may answer with: no choices, a choice with empty
\* content, a choice with content
ResponseBodies ==
    {[choices |-> <<>>],
     [choices |-> <<[content |-> NoText]>>],
     [choices |-> <<[content |-> AiText]>>]}

\* _make_request: the sleep computed from the clock and last_request_time
RateLimitSleep(current_time, last) ==
    IF current_time - last < rate_limit_delay
    THEN rate_limit_delay - (current_time - last)
    ELSE 0

\* ChatResult without the check of the content
ChatResultAnyContent(response_data) ==
    IF Len(response_data.choices) = 0
    THEN [ok |-> FALSE, content |-> NoText,
          detail |-> "No response choices returned from OpenRouter"]
    ELSE [ok |-> TRUE, content |-> response_data.choices[1].content, detail |-> ""]

\* send_chat_request: the content extracted from the body, or the failure
ChatResult(response_data) ==
    IF Len(response_data.choices) = 0
    THEN [ok |-> FALSE, content |-> NoText,
          detail |-> "No response choices returned from OpenRouter"]
    ELSE LET content == response_data.choices[1].content
         IN  IF content = NoText
             THEN [ok |-> FALSE, content |-> NoText,
                   detail |-> "Empty response content from OpenRouter"]
             ELSE [ok |-> TRUE, content |-> content, detail |-> ""]

\* dict.get(key, default)
Get(d, key, default) == IF key \in DOMAIN d THEN d[key] ELSE default

\* _calculate_cost, the pricing table: dollars per million tokens, held in
\* hundredths of a dollar
Pricing ==
    ("anthropic/claude-3.5-sonnet" :> [input |-> 300, output |-> 1500])
    @@ ("openai/gpt-4-turbo" :> [input |-> 1000, output |-> 3000])
    @@ ("openai/gpt-3.5-turbo" :> [input |-> 50, output |-> 150])
    @@ ("google/gemini-pro" :> [input |-> 50, output |-> 150])
    @@ ("mistralai/mixtral-8x7b-instruct" :> [input |-> 27, output |-> 27])

\* the pricing of a model that is not in the table
DefaultPricing == [input |-> 100, output |-> 200]

\* CalculateCost with the two rates exchanged
CalculateCostSwapped(model, prompt_tokens, completion_tokens) ==
    LET model_pricing == Get(Pricing, model, DefaultPricing)
    IN  prompt_tokens * model_pricing.output + completion_tokens * model_pricing.input

\* _calculate_cost: (prompt_tokens / 1e6) * input + (completion_tokens / 1e6)
\* * output, in exact arithmetic; the unit is a hundred-millionth of a dollar
\* (a hundredth of a dollar per million tokens, times tokens)
CalculateCost(model, prompt_tokens, completion_tokens) ==
    LET model_pricing == Get(Pricing, model, DefaultPricing)
    IN  prompt_tokens * model_pricing.input + completion_tokens * model_pricing.output

\* the result of a call that raised
NoResult ==
    [raised |-> TRUE, content |-> NoText, model |-> "", usage |-> <<>>,
     estimated_cost |-> 0]

\* send_chat_request as its caller sees it: the content, the model, the usage
\* of the body and the cost estimated from it, or the exception
SendChatRequest(model, upstream) ==
    IF upstream.failed \/ ~ChatResult(upstream.body).ok
    THEN NoResult
    ELSE LET usage == Get(upstream.body, "usage", <<>>)
         IN  [raised |-> FALSE,
              content |-> ChatResult(upstream.body).content,
              model |-> Get(upstream.body, "model", model),
              usage |-> usage,
              estimated_cost |->
                  CalculateCost(model, Get(usage, "prompt_tokens", 0),
                                Get(usage, "completion_tokens", 0))]

\* _get_default_models: the built-in catalog
DefaultModels ==
    <<[id |-> "anthropic/claude-3.5-sonnet", name |-> "Claude 3.5 Sonnet",
       context_length |-> 200000],
      [id |-> "openai/gpt-4-turbo", name |-> "GPT-4 Turbo", context_length |-> 128000],
      [id |-> "openai/gpt-3.5-turbo", name |-> "GPT-3.5 Turbo", context_length |-> 16385],
      [id |-> "google/gemini-pro", name |-> "Gemini Pro", context_length |-> 30720]>>

\* the body of a call that got no response
NoBody == [object |-> "none"]

\* the bodies the provider may answer GET /models with: no data, an empty
\* list, a model with all its fields, a model with its id only, two models
ModelBodies ==
    {[object |-> "list"],
     [data |-> <<>>],
     [data |-> <<[id |-> "mistralai/mixtral-8x7b-instruct", name |-> "Mixtral",
                  context_length |-> 32768]>>],
     [data |-> <<[id |-> "mistralai/mixtral-8x7b-instruct"]>>],
     [data |-> <<[id |-> "openai/gpt-4-turbo", name |-> "GPT-4 Turbo",
                  context_length |-> 128000],
                 [id |-> "google/gemini-pro", name |-> "Gemini Pro",
                  context_length |-> 30720]>>]}

\* get_available_models, the formatting of one model of the body
FormatModel(model) ==
    [id |-> Get(model, "id", ""), name |-> Get(model, "name", ""),
     context_length |-> Get(model, "context_length", 0)]

\* get_available_models that keeps the list of its last call and answers
\* with the new models put in front of it
GetAvailableModelsKeeping(upstream) ==
    IF upstream.failed
    THEN [raised |-> FALSE, models |-> DefaultModels]
    ELSE LET models == Get(upstream.body, "data", <<>>)
             kept == {k \in DOMAIN listing :
                         listing[k].pc = "Returned" /\ listing[k].route = "models"}
         IN  [raised |-> FALSE,
              models |-> [i \in 1..Len(models) |-> FormatModel(models[i])]
                         \o (IF kept = {} THEN <<>>
                             ELSE listing[CHOOSE k \in kept : TRUE].response.models)]

\* get_available_models that lets the failure of the upstream call pass
GetAvailableModelsNoFallback(upstream) ==
    IF upstream.failed
    THEN [raised |-> TRUE, models |-> <<>>]
    ELSE LET models == Get(upstream.body, "data", <<>>)
         IN  [raised |-> FALSE,
              models |-> [i \in 1..Len(models) |-> FormatModel(models[i])]]

\* get_available_models: the formatted models of the body, or the built-in
\* catalog when the upstream call raised
GetAvailableModels(upstream) ==
    IF upstream.failed
    THEN [raised |-> FALSE, models |-> DefaultModels]
    ELSE LET models == Get(upstream.body, "data", <<>>)
         IN  [raised |-> FALSE,
              models |-> [i \in 1..Len(models) |-> FormatModel(models[i])]]

\* health_check that calls the provider with no try of its own
HealthCheckUnguarded(upstream) ==
    [raised |-> upstream.failed, value |-> TRUE]

\* health_check: True when get_available_models returns, False when it raises
HealthCheck(upstream) ==
    LET listed == GetAvailableModels(upstream)
    IN  [raised |-> FALSE, value |-> ~listed.raised]

\* the response of a handler that has not answered
NoListing ==
    [status_code |-> 0, models |-> <<>>, total |-> 0, status |-> "",
     openrouter_api |-> ""]

\* GET /models: the catalog and its size, or 500 when the service raises
ModelsRoute(upstream) ==
    LET listed == GetAvailableModels(upstream)
    IN  IF listed.raised
        THEN [NoListing EXCEPT !.status_code = HTTP_500_INTERNAL_SERVER_ERROR]
        ELSE [NoListing EXCEPT !.status_code = HTTP_200_OK,
                               !.models = listed.models,
                               !.total = Len(listed.models)]

\* GET /health: the status of the service from health_check
ChatHealthCheck(upstream) ==
    LET checked == HealthCheck(upstream)
    IN  IF checked.raised
        THEN [NoListing EXCEPT !.status_code = HTTP_200_OK,
                               !.status = "unhealthy", !.openrouter_api = "error"]
        ELSE [NoListing EXCEPT !.status_code = HTTP_200_OK,
                               !.status = IF checked.value THEN "healthy" ELSE "degraded",
                               !.openrouter_api =
                                   IF checked.value THEN "available" ELSE "unavailable"]

----------------------------------------------------------------------------
(* The orchestrator: send_chat_message *)

\* TitleOf with the ellipsis already at the limit
TitleOfInclusive(message) ==
    LET title == SubSeq(message, 1, Min(Len(message), TitleLimit))
    IN  IF Len(message) >= TitleLimit THEN title \o Ellipsis ELSE title

\* the title of a conversation created by a chat turn
TitleOf(message) ==
    LET title == SubSeq(message, 1, Min(Len(message), TitleLimit))
    IN  IF Len(message) > TitleLimit THEN title \o Ellipsis ELSE title

\* ResolveStatus without the check of the status
ResolveStatusAnyStatus(convs, conversation_id, user_id) ==
    IF ~Exists(convs, conversation_id) \/ convs[conversation_id].user_id # user_id
    THEN HTTP_404_NOT_FOUND
    ELSE 0

\* ResolveStatus without the check of the owner
ResolveStatusAnyOwner(convs, conversation_id, user_id) ==
    IF ~Exists(convs, conversation_id)
    THEN HTTP_404_NOT_FOUND
    ELSE IF convs[conversation_id].status # ACTIVE
         THEN HTTP_400_BAD_REQUEST
         ELSE 0

\* the checks on a referenced conversation: 0 when it may be written to
ResolveStatus(convs, conversation_id, user_id) ==
    IF ~Exists(convs, conversation_id) \/ convs[conversation_id].user_id # user_id
    THEN HTTP_404_NOT_FOUND
    ELSE IF convs[conversation_id].status # ACTIVE
         THEN HTTP_400_BAD_REQUEST
         ELSE 0

\* ApiMessages without the reversal of the history
ApiMessagesNewestFirst(system_message, recent_messages) ==
    (IF system_message # NoText
     THEN <<[role |-> SYSTEM, content |-> system_message]>>
     ELSE <<>>)
    \o [i \in 1..Len(recent_messages) |->
           [role |-> recent_messages[i].role,
            content |-> recent_messages[i].content]]

\* api_messages: the system message if any, then the history oldest first
ApiMessages(system_message, recent_messages) ==
    (IF system_message # NoText
     THEN <<[role |-> SYSTEM, content |-> system_message]>>
     ELSE <<>>)
    \o Reverse([i \in 1..Len(recent_messages) |->
                   [role |-> recent_messages[i].role,
                    content |-> recent_messages[i].content]])

\* the keys of the metadata of the user message
ClientMetadata == {"client_timestamp"}

\* the keys of the metadata of the AI response
GenerationMetadata == {"model", "usage", "response_time", "estimated_cost"}

NoStats == [message_count |-> 0, last_message_at |-> 0]

NoData == [rows |-> <<>>, messages |-> <<>>]

NoResp == [conversation_id |-> 0, status_code |-> 0, rows |-> 0, messages |-> 0]

\* a handler that has not been called: no request, no locals
IdleTurn ==
    [pc |-> "Idle", user |-> "", message |-> NoText, conversation_ref |-> 0,
     system_message |-> NoText, conversation_id |-> 0, stats |-> NoStats,
     recent |-> <<>>, api_messages |-> <<>>, requests |-> 0,
     wake_at |-> 0, dispatched_at |-> 0, content |-> NoText,
     status_code |-> 0, detail |-> ""]

\* a models or health handler that has not been called
IdleListing ==
    [pc |-> "Idle", route |-> "", model |-> "", wake_at |-> 0, dispatched_at |-> 0,
     failed |-> FALSE, body |-> NoBody, response |-> NoListing]

\* the request bodies of POST /chat: a new conversation or a referenced one,
\* with and without a system message
ChatRequests(ids) ==
    {[message |-> m, conversation_id |-> 0, system_message |-> NoText] :
        m \in MessageTexts}
    \cup {[message |-> TextOf(TitleLimit), conversation_id |-> c, system_message |-> s] :
        c \in {0} \cup ids, s \in SystemTexts \ {NoText}}

Init ==
    /\ conversations = <<>>
    /\ messages = <<>>
    /\ now = rate_limit_delay
    /\ last_request_time = 0
    /\ turn = [t \in Turns |-> IdleTurn]
    /\ resp = NoResp
    /\ ops = 0
    /\ listing = [k \in Listings |-> IdleListing]

\* the handler ends: it returns, or raises HTTPException(status_code, detail);
\* its request and its locals are gone
Ended(r, pc, status_code, detail) ==
    [IdleTurn EXCEPT !.pc = pc, !.user = r.user, !.dispatched_at = r.dispatched_at,
                     !.requests = r.requests,
                     !.status_code = status_code, !.detail = detail]

\* a request arrives and the conversation is created or resolved (step 1)
ResolveOrCreate(t, user, request) ==
    /\ turn[t].pc = "Idle"
    /\ \A earlier \in Turns : earlier < t => turn[earlier].pc # "Idle"
    /\ LET r == [turn[t] EXCEPT !.user = user, !.message = request.message,
                                !.conversation_ref = request.conversation_id,
                                !.system_message = request.system_message]
           conversation_id == request.conversation_id
       IN  IF conversation_id = 0
           THEN /\ conversations' =
                       Append(conversations,
                              NewConversation(user, TitleOf(request.message)))
                /\ turn' = [turn EXCEPT ![t] =
                       [r EXCEPT !.pc = "PersistingUser",
                                 !.conversation_id = Len(conversations) + 1]]
           ELSE LET code == ResolveStatus(conversations, conversation_id, user)
                IN  /\ turn' = [turn EXCEPT ![t] =
                           IF code = 0
                           THEN [r EXCEPT !.pc = "PersistingUser",
                                          !.conversation_id = conversation_id]
                           ELSE Ended(r, "Aborted", code,
                                      IF code = HTTP_404_NOT_FOUND
                                      THEN "Conversation not found"
                                      ELSE "Cannot send message to inactive conversation")]
                    /\ UNCHANGED conversations
    /\ UNCHANGED <<messages, now, last_request_time, resp, ops, listing>>

\* InsertUserMessage that goes on without the insert
InsertUserMessageSkipped(t) ==
    /\ turn[t].pc = "PersistingUser"
    /\ turn' = [turn EXCEPT ![t].pc = "UserStatsRead"]
    /\ UNCHANGED <<conversations, messages, now, last_request_time, resp, ops, listing>>

\* create_with_conversation_update, the insert of the user message (step 2)
InsertUserMessage(t) ==
    /\ turn[t].pc = "PersistingUser"
    /\ messages' = Append(messages,
           NewMessage(turn[t].conversation_id, USER, turn[t].message,
                      ClientMetadata, t))
    /\ turn' = [turn EXCEPT ![t].pc = "UserStatsRead"]
    /\ UNCHANGED <<conversations, now, last_request_time, resp, ops, listing>>

\* InsertAssistantMessage without the metadata of the generation
InsertAssistantMessageBare(t) ==
    /\ turn[t].pc = "PersistingAssistant"
    /\ messages' = Append(messages,
           NewMessage(turn[t].conversation_id, ASSISTANT, turn[t].content, {}, t))
    /\ turn' = [turn EXCEPT ![t].pc = "AssistantStatsRead"]
    /\ UNCHANGED <<conversations, now, last_request_time, resp, ops, listing>>

\* InsertAssistantMessage storing the request text in place of the AI content
InsertAssistantMessageEcho(t) ==
    /\ turn[t].pc = "PersistingAssistant"
    /\ messages' = Append(messages,
           NewMessage(turn[t].conversation_id, ASSISTANT, turn[t].message,
                      GenerationMetadata, t))
    /\ turn' = [turn EXCEPT ![t].pc = "AssistantStatsRead"]
    /\ UNCHANGED <<conversations, now, last_request_time, resp, ops, listing>>

\* create_with_conversation_update, the insert of the AI response (step 5)
InsertAssistantMessage(t) ==
    /\ turn[t].pc = "PersistingAssistant"
    /\ messages' = Append(messages,
           NewMessage(turn[t].conversation_id, ASSISTANT, turn[t].content,
                      GenerationMetadata, t))
    /\ turn' = [turn EXCEPT ![t].pc = "AssistantStatsRead"]
    /\ UNCHANGED <<conversations, now, last_request_time, resp, ops, listing>>

\* update_conversation_stats, the select of count and max
ReadStats(t) ==
    /\ turn[t].pc \in {"UserStatsRead", "AssistantStatsRead"}
    /\ turn' = [turn EXCEPT
           ![t].stats = ConversationStats(messages, turn[t].conversation_id),
           ![t].pc = IF turn[t].pc = "UserStatsRead"
                     THEN "UserStatsWrite" ELSE "AssistantStatsWrite"]
    /\ UNCHANGED <<conversations, messages, now, last_request_time, resp, ops, listing>>

\* update_conversation_stats, the update; after the assistant message the
\* handler returns the ChatResponse (step 6)
WriteStats(t) ==
    /\ turn[t].pc \in {"UserStatsWrite", "AssistantStatsWrite"}
    /\ conversations' = WithStats(conversations, turn[t].conversation_id, turn[t].stats)
    /\ turn' = [turn EXCEPT ![t] =
           IF turn[t].pc = "UserStatsWrite"
           THEN [@ EXCEPT !.pc = "BuildingContext", !.stats = NoStats]
           ELSE Ended(@, "Done", HTTP_200_OK, "")]
    /\ UNCHANGED <<messages, now, last_request_time, resp, ops, listing>>

\* BuildContext with a list that is shared between the calls: the entries of
\* a turn that built its list before are still in it
BuildContextShared(t) ==
    /\ turn[t].pc = "BuildingContext"
    /\ \E recent \in RecentContext(messages, turn[t].conversation_id, ContextLimit) :
          LET before == {u \in Turns \ {t} : turn[u].api_messages # <<>>}
              shared == IF before = {} THEN <<>>
                        ELSE turn[CHOOSE u \in before : TRUE].api_messages
          IN  turn' = [turn EXCEPT
                  ![t].recent = recent,
                  ![t].api_messages =
                      shared \o ApiMessages(turn[t].system_message,
                                            [i \in 1..Len(recent) |-> messages[recent[i]]]),
                  ![t].pc = "Invoking"]
    /\ UNCHANGED <<conversations, messages, now, last_request_time, resp, ops, listing>>

\* get_recent_context and the formatting of api_messages (step 3)
BuildContext(t) ==
    /\ turn[t].pc = "BuildingContext"
    /\ \E recent \in RecentContext(messages, turn[t].conversation_id, ContextLimit) :
          turn' = [turn EXCEPT
              ![t].recent = recent,
              ![t].api_messages =
                  ApiMessages(turn[t].system_message,
                              [i \in 1..Len(recent) |-> messages[recent[i]]]),
              ![t].pc = "Invoking"]
    /\ UNCHANGED <<conversations, messages, now, last_request_time, resp, ops, listing>>

\* send_chat_request enters _make_request: the rate limiter reads the clock
\* and last_request_time, then sleeps or sends at once (step 4)
EnterRequest(t) ==
    /\ turn[t].pc = "Invoking"
    /\ LET sleep == RateLimitSleep(now, last_request_time)
       IN  turn' = [turn EXCEPT
               ![t].wake_at = IF sleep = 0 THEN 0 ELSE now + sleep,
               ![t].dispatched_at = IF sleep = 0 THEN now ELSE 0,
               ![t].requests = @ + 1,
               ![t].pc = IF sleep = 0 THEN "InFlight" ELSE "Sleeping"]
    /\ UNCHANGED <<conversations, messages, now, last_request_time, resp, ops, listing>>

\* Wake that needs the clock to have passed the end of the delay
WakeStrict(t) ==
    /\ turn[t].pc = "Sleeping"
    /\ now > turn[t].wake_at
    /\ turn' = [turn EXCEPT ![t].wake_at = 0, ![t].dispatched_at = now,
                            ![t].pc = "InFlight"]
    /\ UNCHANGED <<conversations, messages, now, last_request_time, resp, ops, listing>>

\* asyncio.sleep returns, not before the delay has passed; the request is sent
Wake(t) ==
    /\ turn[t].pc = "Sleeping"
    /\ now >= turn[t].wake_at
    /\ turn' = [turn EXCEPT ![t].wake_at = 0, ![t].dispatched_at = now,
                            ![t].pc = "InFlight"]
    /\ UNCHANGED <<conversations, messages, now, last_request_time, resp, ops, listing>>

\* ConnectFail that takes back what a turn on a new conversation has written:
\* its user message is removed and its conversation marked deleted
ConnectFailRollback(t) ==
    /\ turn[t].pc = "InFlight"
    /\ turn' = [turn EXCEPT ![t] =
           Ended(@, "Aborted", HTTP_500_INTERNAL_SERVER_ERROR,
                 "Failed to communicate with OpenRouter API")]
    /\ IF turn[t].conversation_ref = 0
       THEN /\ messages' = SelectSeq(messages, LAMBDA m : m.turn # t)
            /\ conversations' =
                   [conversations EXCEPT ![turn[t].conversation_id].status = DELETED]
       ELSE UNCHANGED <<conversations, messages>>
    /\ UNCHANGED <<now, last_request_time, resp, ops, listing>>

\* ConnectFail with the error swallowed: the turn goes on with no content
ConnectFailSwallowed(t) ==
    /\ turn[t].pc = "InFlight"
    /\ turn' = [turn EXCEPT ![t].pc = "PersistingAssistant",
                            ![t].system_message = NoText,
                            ![t].recent = <<>>,
                            ![t].api_messages = <<>>,
                            ![t].content = NoText]
    /\ UNCHANGED <<conversations, messages, now, last_request_time, resp, ops, listing>>

\* ConnectFail with one more attempt after the first failure
ConnectFailRetry(t) ==
    /\ turn[t].pc = "InFlight"
    /\ turn' = [turn EXCEPT ![t] =
           IF @.requests < 2
           THEN [@ EXCEPT !.pc = "Invoking", !.dispatched_at = 0]
           ELSE Ended(@, "Aborted", HTTP_500_INTERNAL_SERVER_ERROR,
                      "Failed to communicate with OpenRouter API")]
    /\ UNCHANGED <<conversations, messages, now, last_request_time, resp, ops, listing>>

\* the transport cannot reach the provider: aiohttp.ClientError before any
\* response, last_request_time is not written
ConnectFail(t) ==
    /\ turn[t].pc = "InFlight"
    /\ turn' = [turn EXCEPT ![t] =
           Ended(@, "Aborted", HTTP_500_INTERNAL_SERVER_ERROR,
                 "Failed to communicate with OpenRouter API")]
    /\ UNCHANGED <<conversations, messages, now, last_request_time, resp, ops, listing>>

\* Respond with a compensating delete of the turn's user message on failure
RespondWithRollback(t, http_ok, response_data) ==
    /\ turn[t].pc = "InFlight"
    /\ last_request_time' = now
    /\ LET result == ChatResult(response_data)
       IN  IF http_ok /\ result.ok
           THEN /\ turn' = [turn EXCEPT ![t].pc = "PersistingAssistant",
                                        ![t].system_message = NoText,
                                        ![t].recent = <<>>,
                                        ![t].api_messages = <<>>,
                                        ![t].content = result.content]
                /\ UNCHANGED messages
           ELSE /\ turn' = [turn EXCEPT ![t] =
                       Ended(@, "Aborted", HTTP_500_INTERNAL_SERVER_ERROR,
                             IF http_ok THEN result.detail
                             ELSE "Failed to communicate with OpenRouter API")]
                /\ messages' = SelectSeq(messages, LAMBDA m : m.turn # t)
    /\ UNCHANGED <<conversations, now, resp, ops, listing>>

\* the response arrives: last_request_time is stamped, then raise_for_status,
\* then send_chat_request examines the body
Respond(t, http_ok, response_data) ==
    /\ turn[t].pc = "InFlight"
    /\ last_request_time' = now
    /\ LET result == ChatResult(response_data)
       IN  turn' = [turn EXCEPT ![t] =
               IF ~http_ok
               THEN Ended(@, "Aborted", HTTP_500_INTERNAL_SERVER_ERROR,
                          "Failed to communicate with OpenRouter API")
               ELSE IF ~result.ok
                    THEN Ended(@, "Aborted", HTTP_500_INTERNAL_SERVER_ERROR,
                               result.detail)
                    ELSE [@ EXCEPT !.pc = "PersistingAssistant",
                                   !.system_message = NoText,
                                   !.recent = <<>>,
                                   !.api_messages = <<>>,
                                   !.content = result.content]]
    /\ UNCHANGED <<conversations, messages, now, resp, ops, listing>>

\* the request is cancelled while the handler awaits the gateway
\* (CancelledError passes every `except Exception`): no response is sent
Cancel(t) ==
    /\ turn[t].pc \in {"Sleeping", "InFlight"}
    /\ turn' = [turn EXCEPT ![t] = Ended(@, "Aborted", 0, "cancelled")]
    /\ UNCHANGED <<conversations, messages, now, last_request_time, resp, ops, listing>>

\* the store calls a turn awaits after its conversation is resolved
StoreSteps ==
    {"PersistingUser", "UserStatsRead", "UserStatsWrite", "BuildingContext",
     "PersistingAssistant", "AssistantStatsRead", "AssistantStatsWrite"}

\* the store call the turn awaits raises: `except Exception` turns it into
\* HTTPException(500); what the earlier calls committed stays
StoreFail(t) ==
    /\ turn[t].pc \in StoreSteps
    /\ turn' = [turn EXCEPT ![t] =
           Ended(@, "Aborted", HTTP_500_INTERNAL_SERVER_ERROR, "store operation failed")]
    /\ UNCHANGED <<conversations, messages, now, last_request_time, resp, ops, listing>>

\* a request arrives and the create or the get of the conversation raises
ResolveFail(t, user, request) ==
    /\ turn[t].pc = "Idle"
    /\ \A earlier \in Turns : earlier < t => turn[earlier].pc # "Idle"
    /\ turn' = [turn EXCEPT ![t] =
           Ended([@ EXCEPT !.user = user], "Aborted", HTTP_500_INTERNAL_SERVER_ERROR,
                 "store operation failed")]
    /\ UNCHANGED <<conversations, messages, now, last_request_time, resp, ops, listing>>

\* the clock advances
Tick ==
    /\ now < MaxTime
    /\ now' = now + 1
    /\ UNCHANGED <<conversations, messages, last_request_time, turn, resp, ops, listing>>

----------------------------------------------------------------------------
(* The conversation requests *)

\* the response of a conversation request: its status and the size of the
\* data it carries (conversation rows, messages)
Response(conversation_id, status_code, data) ==
    [conversation_id |-> conversation_id, status_code |-> status_code,
     rows |-> Len(data.rows), messages |-> Len(data.messages)]

\* get_conversation_detail
GetConversationDetail(user, conversation_id) ==
    /\ ops < MaxOps
    /\ LET found == GetWithMessages(conversations, messages, conversation_id, user)
       IN  resp' = IF found.rows = <<>>
                   THEN Response(conversation_id, HTTP_404_NOT_FOUND, NoData)
                   ELSE Response(conversation_id, HTTP_200_OK, found)
    /\ ops' = ops + 1
    /\ UNCHANGED <<conversations, messages, now, last_request_time, turn, listing>>

\* Owned without the comparison of the owner
OwnedByAnyone(convs, conversation_id, user) ==
    Exists(convs, conversation_id)

\* the ownership check of update_conversation and delete_conversation
Owned(convs, conversation_id, user) ==
    Exists(convs, conversation_id) /\ convs[conversation_id].user_id = user

\* Updated that also hands the conversation to the other user
UpdatedWithOwner(row, update_data) ==
    [row EXCEPT
        !.user_id = IF @ = "u1" THEN "u2" ELSE "u1",
        !.title = IF update_data.title # NoText THEN update_data.title ELSE @,
        !.status = IF update_data.status # "" THEN update_data.status ELSE @,
        !.system_prompt = IF update_data.system_prompt # NoText
                          THEN update_data.system_prompt ELSE @]

\* crud update with ChatConversationUpdate.model_dump(exclude_unset=True):
\* the fields that are set overwrite the row's
Updated(row, update_data) ==
    [row EXCEPT
        !.title = IF update_data.title # NoText THEN update_data.title ELSE @,
        !.status = IF update_data.status # "" THEN update_data.status ELSE @,
        !.system_prompt = IF update_data.system_prompt # NoText
                          THEN update_data.system_prompt ELSE @]

\* the bodies of update_conversation: one that sets title and system prompt,
\* and one for each status
UpdateBodies ==
    {[title |-> NewTitle, status |-> "", system_prompt |-> NewPrompt]}
    \cup {[title |-> NoText, status |-> s, system_prompt |-> NoText] :
             s \in ConversationStatus}

\* update_conversation
UpdateConversation(user, conversation_id, update_data) ==
    /\ ops < MaxOps
    /\ IF Owned(conversations, conversation_id, user)
       THEN /\ conversations' = [conversations EXCEPT ![conversation_id] =
                                     Updated(@, update_data)]
            /\ resp' = Response(conversation_id, HTTP_200_OK,
                                [rows |-> <<conversations'[conversation_id]>>,
                                 messages |-> <<>>])
       ELSE /\ resp' = Response(conversation_id, HTTP_404_NOT_FOUND, NoData)
            /\ UNCHANGED conversations
    /\ ops' = ops + 1
    /\ UNCHANGED <<messages, now, last_request_time, turn, listing>>

\* DeleteConversation that also removes the messages of the conversation
DeleteConversationCascade(user, conversation_id) ==
    /\ ops < MaxOps
    /\ IF Owned(conversations, conversation_id, user)
       THEN /\ conversations' = [conversations EXCEPT ![conversation_id].status = DELETED]
            /\ messages' = SelectSeq(messages, LAMBDA m : m.conversation_id # conversation_id)
            /\ resp' = Response(conversation_id, HTTP_200_OK, NoData)
       ELSE /\ resp' = Response(conversation_id, HTTP_404_NOT_FOUND, NoData)
            /\ UNCHANGED <<conversations, messages>>
    /\ ops' = ops + 1
    /\ UNCHANGED <<now, last_request_time, turn, listing>>

\* delete_conversation: the soft delete
DeleteConversation(user, conversation_id) ==
    /\ ops < MaxOps
    /\ IF Owned(conversations, conversation_id, user)
       THEN /\ conversations' = [conversations EXCEPT ![conversation_id].status = DELETED]
            /\ resp' = Response(conversation_id, HTTP_200_OK, NoData)
       ELSE /\ resp' = Response(conversation_id, HTTP_404_NOT_FOUND, NoData)
            /\ UNCHANGED conversations
    /\ ops' = ops + 1
    /\ UNCHANGED <<messages, now, last_request_time, turn, listing>>

\* the ids a request may name: those of the rows, and one that has no row
RequestIds == 1..(Len(conversations) + 1)

\* the steps of the chat turns that have arrived
TurnStep ==
    \/ \E t \in Turns : InsertUserMessage(t)
    \/ \E t \in Turns : InsertAssistantMessage(t)
    \/ \E t \in Turns : ReadStats(t)
    \/ \E t \in Turns : WriteStats(t)
    \/ \E t \in Turns : BuildContext(t)
    \/ \E t \in Turns : EnterRequest(t)
    \/ \E t \in Turns : Wake(t)
    \/ \E t \in Turns : ConnectFail(t)
    \/ \E t \in Turns, http_ok \in BOOLEAN, response_data \in ResponseBodies :
          Respond(t, http_ok, response_data)
    \/ \E t \in Turns : Cancel(t)

\* concurrent chat turns
Next ==
    \/ \E t \in Turns : \E user \in Callers(t), request \in ChatRequests(RequestIds) :
          ResolveOrCreate(t, user, request)
    \/ TurnStep
    \/ Tick

Spec == Init /\ [][Next]_vars

\* no chat turn is in flight
Quiet == \A t \in Turns : turn[t].pc \in {"Idle", "Done", "Aborted"}

\* chat turns one after the other, with the conversation requests at any time
NextConversations ==
    \/ \E t \in Turns : \E user \in Callers(t), request \in ChatRequests(RequestIds) :
          Quiet /\ ResolveOrCreate(t, user, request)
    \/ TurnStep
    \/ Tick
    \/ \E user \in Users, conversation_id \in RequestIds :
          GetConversationDetail(user, conversation_id)
    \/ \E user \in Users, conversation_id \in RequestIds, update_data \in UpdateBodies :
          UpdateConversation(user, conversation_id, update_data)
    \/ \E user \in Users, conversation_id \in RequestIds :
          DeleteConversation(user, conversation_id)

SpecConversations == Init /\ [][NextConversations]_vars

----------------------------------------------------------------------------
(* The message search *)

\* the q of GET /messages/search: a text of every message, the last character
\* of the longer request text, and a text of no message
SearchQueries == {AiText, <<TitleLimit + 1>>, <<TitleLimit + 2>>}

\* skip: none, or one row
Skips == {0, 1}

\* the default limit (the route allows 1 to 200)
DefaultLimit == 50

\* limit: the least the route allows, and the default
Limits == {1, DefaultLimit}

\* GET /messages/search: the rows found, by their position in the table, and
\* the request they answer
SearchRoute(user, q, skip, limit) ==
    /\ ops < MaxSearches
    /\ \E found \in SearchMessages(conversations, messages, user, q, skip, limit) :
          resp' = [conversation_id |-> 0, status_code |-> HTTP_200_OK, rows |-> 0,
                   messages |-> Len(found), found |-> found,
                   user |-> user, q |-> q, skip |-> skip, limit |-> limit]
    /\ ops' = ops + 1
    /\ UNCHANGED <<conversations, messages, now, last_request_time, turn, listing>>

\* chat turns one after the other, then searches: a search only reads, so
\* the turns that could follow it are the turns that can run without it
NextSearch ==
    \/ \E t \in Turns : \E user \in Callers(t), request \in ChatRequests(RequestIds) :
          Quiet /\ ops = 0 /\ ResolveOrCreate(t, user, request)
    \/ TurnStep
    \/ Tick
    \/ \E user \in Users, q \in SearchQueries, skip \in Skips, limit \in Limits :
          Quiet /\ SearchRoute(user, q, skip, limit)

SpecSearch == Init /\ [][NextSearch]_vars

----------------------------------------------------------------------------
(* The owner statistics *)

\* the statistics requests served
MaxStats == 1

\* GET /stats: the statistics of the caller
StatsRoute(user) ==
    /\ ops < MaxStats
    /\ resp' = [conversation_id |-> 0, status_code |-> HTTP_200_OK, rows |-> 0,
                messages |-> 0, user |-> user,
                stats |-> GetUserStats(conversations, messages, user)]
    /\ ops' = ops + 1
    /\ UNCHANGED <<conversations, messages, now, last_request_time, turn, listing>>

\* chat turns one after the other, and a statistics request at any time; the
\* request only reads, so the turns that could arrive after it are the turns
\* that can arrive without it
NextStats ==
    \/ \E t \in Turns : \E user \in Callers(t), request \in ChatRequests(RequestIds) :
          Quiet /\ ops = 0 /\ ResolveOrCreate(t, user, request)
    \/ TurnStep
    \/ Tick
    \/ \E user \in Users : StatsRoute(user)

SpecStats == Init /\ [][NextStats]_vars

----------------------------------------------------------------------------
(* Concurrent chat turns on a store that may fail *)

NextFaults ==
    \/ \E t \in Turns : \E user \in Callers(t), request \in ChatRequests(RequestIds) :
          ResolveOrCreate(t, user, request)
    \/ \E t \in Turns : \E user \in Callers(t), request \in ChatRequests(RequestIds) :
          ResolveFail(t, user, request)
    \/ TurnStep
    \/ \E t \in Turns : StoreFail(t)
    \/ Tick

SpecFaults == Init /\ [][NextFaults]_vars

----------------------------------------------------------------------------
(* Concurrent chat turns on a gateway client that has served requests *)

\* no chat request has arrived yet; the service has answered no request, or
\* has just answered one (of GET /models, which writes to no table)
InitLimiter ==
    /\ conversations = <<>>
    /\ messages = <<>>
    /\ now = rate_limit_delay
    /\ last_request_time \in {0, now}
    /\ turn = [t \in Turns |-> IdleTurn]
    /\ resp = NoResp
    /\ ops = 0
    /\ listing = [k \in Listings |-> IdleListing]

SpecLimiter == InitLimiter /\ [][Next]_vars

----------------------------------------------------------------------------
(* Chat turns whose awaited calls all end *)

\* the clock goes on beyond MaxTime while a caller of the rate limiter sleeps
TickWaiting ==
    /\ now >= MaxTime
    /\ \E t \in Turns : turn[t].pc = "Sleeping" /\ now < turn[t].wake_at
    /\ now' = now + 1
    /\ UNCHANGED <<conversations, messages, last_request_time, turn, resp, ops, listing>>

\* the step of turn t when the call it awaits returns or fails
Continue(t) ==
    \/ InsertUserMessage(t)
    \/ InsertAssistantMessage(t)
    \/ ReadStats(t)
    \/ WriteStats(t)
    \/ BuildContext(t)
    \/ EnterRequest(t)
    \/ Wake(t)
    \/ ConnectFail(t)
    \/ \E http_ok \in BOOLEAN, response_data \in ResponseBodies :
          Respond(t, http_ok, response_data)

NextLive ==
    \/ Next
    \/ TickWaiting

\* every store call and every upstream call returns or fails, the event loop
\* resumes every handler that can go on, and time passes while a caller sleeps
Fairness ==
    /\ \A t \in Turns : WF_vars(Continue(t))
    /\ WF_vars(Tick \/ TickWaiting)

SpecLive == InitLimiter /\ [][NextLive]_vars /\ Fairness

----------------------------------------------------------------------------
(* A chat turn on a conversation with a history, among other chat turns *)

\* the text of the user messages of other turns
PastText == <<3>>

HistoryLengths == {ContextLimit - HistoryMargin, ContextLimit + HistoryMargin}

\* the log of n / 2 completed turns on conversation 1, each message created
\* in a different tick before the clock's first; the gateway has answered no
\* request since, or has just answered one
History(n) ==
    [i \in 1..n |->
        [conversation_id |-> 1,
         role |-> IF i % 2 = 1 THEN USER ELSE ASSISTANT,
         content |-> IF i % 2 = 1 THEN PastText ELSE AiText,
         metadata |-> IF i % 2 = 1 THEN ClientMetadata ELSE GenerationMetadata,
         created_at |-> i - n, turn |-> 0]]

InitHistory ==
    /\ \E n \in HistoryLengths :
          /\ messages = History(n)
          /\ conversations =
                <<[NewConversation("u1", PastText) EXCEPT !.message_count = n]>>
    /\ now = rate_limit_delay
    /\ last_request_time \in {0, now}
    /\ turn = [t \in Turns |-> IdleTurn]
    /\ resp = NoResp
    /\ ops = 0
    /\ listing = [k \in Listings |-> IdleListing]

\* the requests of the turn: those of POST /chat, and one on the conversation
\* without a system message
HistoryRequests ==
    ChatRequests({1})
    \cup {[message |-> TextOf(TitleLimit), conversation_id |-> 1, system_message |-> NoText]}

\* the messages other turns have inserted since the start
Crowd == {i \in DOMAIN messages : messages[i].turn = 0 /\ messages[i].created_at > 0}

\* another chat turn of the owner, past its checks, inserts its user message
\* into conversation 1, one tick after the last event, while the followed
\* turn is between its checks and its context query
CrowdInsert ==
    /\ Cardinality(Crowd) < MaxCrowd
    /\ turn[1].pc \in {"PersistingUser", "UserStatsRead", "UserStatsWrite", "BuildingContext"}
    /\ turn[1].conversation_id = 1
    /\ messages' = Append(messages, NewMessage(1, USER, PastText, ClientMetadata, 0))
    /\ now' = now + 1
    /\ UNCHANGED <<conversations, last_request_time, turn, resp, ops, listing>>

\* one chat turn followed step by step, the others by their inserts
NextHistory ==
    \/ \E request \in HistoryRequests : ResolveOrCreate(1, "u1", request)
    \/ TurnStep
    \/ Tick
    \/ CrowdInsert

SpecHistory == InitHistory /\ [][NextHistory]_vars

----------------------------------------------------------------------------
(* The model catalog and the health check *)

\* a request to GET /models or GET /health arrives
CallRoute(k, route) ==
    /\ listing[k].pc = "Idle"
    /\ \A earlier \in Listings : earlier < k => listing[earlier].pc # "Idle"
    /\ listing' = [listing EXCEPT ![k].pc = "Invoking", ![k].route = route]
    /\ UNCHANGED <<conversations, messages, now, last_request_time, turn, resp, ops>>

\* the models a chat request may name: those of the pricing table, and one
\* that is not in it
ChatModels == DOMAIN Pricing \cup {"meta-llama/llama-3-70b-instruct"}

\* the usage of a completion: none of the counts, either one, both
Usages ==
    {<<>>,
     [prompt_tokens |-> 1200],
     [completion_tokens |-> 350],
     [prompt_tokens |-> 1200, completion_tokens |-> 350]}

\* the bodies the provider may answer a chat request with: no choices, a
\* completion without usage, a completion with a usage
ChatBodies ==
    {[choices |-> <<>>], [choices |-> <<[content |-> AiText]>>]}
    \cup {[choices |-> <<[content |-> AiText]>>, usage |-> u] : u \in Usages}

\* send_chat_request is called for a model
CallChat(k, model) ==
    /\ listing[k].pc = "Idle"
    /\ \A earlier \in Listings : earlier < k => listing[earlier].pc # "Idle"
    /\ listing' = [listing EXCEPT ![k].pc = "Invoking", ![k].route = "chat",
                                  ![k].model = model]
    /\ UNCHANGED <<conversations, messages, now, last_request_time, turn, resp, ops>>

\* get_available_models, or send_chat_request, enters _make_request: the rate
\* limiter
ListEnterRequest(k) ==
    /\ listing[k].pc = "Invoking"
    /\ LET sleep == RateLimitSleep(now, last_request_time)
       IN  listing' = [listing EXCEPT
               ![k].wake_at = IF sleep = 0 THEN 0 ELSE now + sleep,
               ![k].dispatched_at = IF sleep = 0 THEN now ELSE 0,
               ![k].pc = IF sleep = 0 THEN "InFlight" ELSE "Sleeping"]
    /\ UNCHANGED <<conversations, messages, now, last_request_time, turn, resp, ops>>

\* asyncio.sleep returns; the GET is sent
ListWake(k) ==
    /\ listing[k].pc = "Sleeping"
    /\ now >= listing[k].wake_at
    /\ listing' = [listing EXCEPT ![k].wake_at = 0, ![k].dispatched_at = now,
                                  ![k].pc = "InFlight"]
    /\ UNCHANGED <<conversations, messages, now, last_request_time, turn, resp, ops>>

\* the handler, or send_chat_request, answers from the outcome of the
\* upstream call
Answered(r, upstream) ==
    [r EXCEPT !.pc = "Returned", !.failed = upstream.failed,
              !.body = upstream.body,
              !.response = CASE r.route = "models" -> ModelsRoute(upstream)
                             [] r.route = "health" -> ChatHealthCheck(upstream)
                             [] r.route = "chat" -> SendChatRequest(r.model, upstream)]

\* the transport cannot reach the provider: _make_request raises before any
\* response, last_request_time is not written
ListConnectFail(k) ==
    /\ listing[k].pc = "InFlight"
    /\ listing' = [listing EXCEPT ![k] = Answered(@, [failed |-> TRUE, body |-> NoBody])]
    /\ UNCHANGED <<conversations, messages, now, last_request_time, turn, resp, ops>>

\* the response arrives: last_request_time is stamped, then raise_for_status,
\* then get_available_models formats the body
ListRespond(k, http_ok, body) ==
    /\ listing[k].pc = "InFlight"
    /\ last_request_time' = now
    /\ listing' = [listing EXCEPT ![k] =
           Answered(@, IF http_ok THEN [failed |-> FALSE, body |-> body]
                       ELSE [failed |-> TRUE, body |-> NoBody])]
    /\ UNCHANGED <<conversations, messages, now, turn, resp, ops>>

\* concurrent requests to the catalog and to the health check, and calls of
\* send_chat_request
NextGateway ==
    \/ \E k \in Listings, route \in {"models", "health"} : CallRoute(k, route)
    \/ \E k \in Listings : ListEnterRequest(k)
    \/ \E k \in Listings : ListWake(k)
    \/ \E k \in Listings : ListConnectFail(k)
    \/ \E k \in Listings, http_ok \in BOOLEAN, body \in ModelBodies :
          listing[k].route # "chat" /\ ListRespond(k, http_ok, body)
    \/ \E k \in Listings, model \in ChatModels : CallChat(k, model)
    \/ \E k \in Listings, http_ok \in BOOLEAN, body \in ChatBodies :
          listing[k].route = "chat" /\ ListRespond(k, http_ok, body)
    \/ Tick

SpecGateway == Init /\ [][NextGateway]_vars

----------------------------------------------------------------------------
(* Properties *)

\* the turns whose request has been sent to the provider
Dispatched == {t \in Turns : turn[t].dispatched_at # 0}

Distance(a, b) == IF a < b THEN b - a ELSE a - b

\* C1: the network dispatch times of any two gateway calls on the shared
\* service are at least rate_limit_delay apart.
C1_DispatchSpacing ==
    \A a, b \in Dispatched :
        a # b => Distance(turn[a].dispatched_at, turn[b].dispatched_at) >= rate_limit_delay

\* the step in which turn t returns its ChatResponse
Completes(t) == turn[t].pc = "AssistantStatsWrite" /\ turn'[t].pc = "Done"

\* the creation times of the messages of a conversation
CreationTimes(msgs, conversation_id) ==
    {msgs[i].created_at : i \in MessagesOf(msgs, conversation_id)}

GatewayFailures ==
    {"Failed to communicate with OpenRouter API",
     "No response choices returned from OpenRouter",
     "Empty response content from OpenRouter",
     "cancelled"}

GatewayAborted(t) == turn[t].pc = "Aborted" /\ turn[t].detail \in GatewayFailures

\* the indexes of the messages written by turn t
MessagesBy(msgs, t) == {i \in DOMAIN msgs : msgs[i].turn = t}

Arrives(t) == turn[t].pc = "Idle" /\ turn'[t].pc # "Idle"

\* the step is a conversation request
Requests == ops' # ops

\* the reference of a request names no conversation the user may write to
InvalidReference(user, request) ==
    \/ ~Exists(conversations, request.conversation_id)
    \/ conversations[request.conversation_id].user_id # user
    \/ conversations[request.conversation_id].status # ACTIVE

\* C4: a chat turn that references a conversation that does not exist, is
\* owned by another user or is not active aborts with 404 respectively 400
\* before any write: no message, no conversation, no aggregate changes, and
\* the aborted turn has written no message.
C4_InvalidReference ==
    /\ [][\A t \in Turns : Arrives(t) =>
            \A user \in Users, request \in ChatRequests(RequestIds) :
                (/\ request.conversation_id # 0
                 /\ InvalidReference(user, request)
                 /\ ResolveOrCreate(t, user, request)) =>
                    /\ turn'[t].pc = "Aborted"
                    /\ turn'[t].status_code =
                          IF \/ ~Exists(conversations, request.conversation_id)
                             \/ conversations[request.conversation_id].user_id # user
                          THEN HTTP_404_NOT_FOUND ELSE HTTP_400_BAD_REQUEST
                    /\ messages' = messages
                    /\ conversations' = conversations]_vars
    /\ [](\A t \in Turns :
            turn[t].status_code \in {HTTP_404_NOT_FOUND, HTTP_400_BAD_REQUEST} =>
                /\ turn[t].pc = "Aborted"
                /\ MessagesBy(messages, t) = {})

\* a turn refused on a conversation that is not active
C4_Witness ==
    \E t \in Turns :
        /\ turn[t].pc = "Aborted"
        /\ turn[t].status_code = HTTP_400_BAD_REQUEST
        /\ \E c \in DOMAIN conversations : conversations[c].status = ARCHIVED

\* conversation c and its messages are the same after the step
Untouched(c) ==
    /\ conversations'[c] = conversations[c]
    /\ SelectSeq(messages', LAMBDA m : m.conversation_id = c)
          = SelectSeq(messages, LAMBDA m : m.conversation_id = c)

\* the response of the step is Not Found and carries no data
NotFoundResponse ==
    /\ resp'.status_code = HTTP_404_NOT_FOUND
    /\ resp'.rows = 0
    /\ resp'.messages = 0

EmptyBody(response_data) ==
    \/ Len(response_data.choices) = 0
    \/ response_data.choices[1].content = NoText

\* C7: send_chat_request never succeeds on a response without choices or
\* whose first choice has no content: the turn fails with an error and no
\* assistant message is written.
C7_EmptyResponseFails ==
    /\ [][\A t \in Turns, http_ok \in BOOLEAN, response_data \in ResponseBodies :
            (EmptyBody(response_data) /\ Respond(t, http_ok, response_data)) =>
                /\ turn'[t].pc = "Aborted"
                /\ turn'[t].status_code = HTTP_500_INTERNAL_SERVER_ERROR]_vars
    /\ [](\A i \in DOMAIN messages :
            messages[i].role = ASSISTANT => messages[i].content # NoText)

\* a turn failed on a choice whose content is empty
C7_Witness ==
    \E t \in Turns :
        /\ turn[t].pc = "Aborted"
        /\ turn[t].detail = "Empty response content from OpenRouter"

\* turn t completes having written two messages to its conversation, the user
\* message with the request text and then the assistant message with the
\* content of the completion
TwoMessages(t) ==
    LET own == MessagesBy(messages', t)
    IN  \E i, j \in own :
           /\ i < j
           /\ own = {i, j}
           /\ messages'[i].role = USER
           /\ messages'[i].content = turn[t].message
           /\ messages'[j].role = ASSISTANT
           /\ messages'[j].content = AiText
           /\ messages'[i].conversation_id = turn[t].conversation_id
           /\ messages'[j].conversation_id = turn[t].conversation_id

C9_MessageOwner ==
    \A i \in DOMAIN messages :
        /\ Exists(conversations, messages[i].conversation_id)
        /\ conversations[messages[i].conversation_id].user_id = turn[messages[i].turn].user

\* a turn of one user was refused on a conversation of the other that holds
\* messages
C9_Witness ==
    \E t \in Turns, c \in DOMAIN conversations :
        /\ turn[t].status_code = HTTP_404_NOT_FOUND
        /\ conversations[c].user_id # turn[t].user
        /\ MessagesOf(messages, c) # {}

\* C10: once the status of a conversation is deleted, no step changes it.
C10_DeletedIsFinal ==
    [][\A c \in DOMAIN conversations :
          conversations[c].status = DELETED => conversations'[c].status = DELETED]_vars

\* the changes of status the conversation requests are meant to make
AllowedTransitions ==
    {<<ACTIVE, ARCHIVED>>, <<ACTIVE, DELETED>>, <<ARCHIVED, DELETED>>}

\* C11: every change of the status of a conversation is active to archived,
\* active to deleted or archived to deleted; no step moves an archived
\* conversation back to active.
C11_StatusTransitions ==
    [][\A c \in DOMAIN conversations :
          conversations'[c].status # conversations[c].status =>
              <<conversations[c].status, conversations'[c].status>> \in AllowedTransitions]_vars

\* the step in which the handler of request k answers
Returns(k) == listing[k].pc = "InFlight" /\ listing'[k].pc = "Returned"

\* the ids of the models of a catalog
IdsOf(models) == [i \in 1..Len(models) |-> models[i].id]

\* C12: get_available_models never fails its caller: GET /models answers 200
\* whatever the upstream call does, and when the upstream call failed the
\* catalog it answers with is the built-in one.
C12_ModelsFallback ==
    [][\A k \in Listings : (Returns(k) /\ listing[k].route = "models") =>
          /\ listing'[k].response.status_code = HTTP_200_OK
          /\ listing'[k].response.total = Len(listing'[k].response.models)
          /\ listing'[k].failed =>
                IdsOf(listing'[k].response.models) =
                    <<"anthropic/claude-3.5-sonnet", "openai/gpt-4-turbo",
                      "openai/gpt-3.5-turbo", "google/gemini-pro">>]_vars

\* GET /models has answered with the built-in catalog after a failed upstream
\* call
C12_Witness ==
    \E k \in Listings :
        /\ listing[k].pc = "Returned"
        /\ listing[k].route = "models"
        /\ listing[k].failed
        /\ listing[k].response.total = 4

C14_HealthReflectsUpstream ==
    \A k \in Listings : (listing[k].pc = "Returned" /\ listing[k].route = "health") =>
        /\ listing[k].response.status =
              IF listing[k].failed THEN "degraded" ELSE "healthy"
        /\ listing[k].response.openrouter_api =
              IF listing[k].failed THEN "unavailable" ELSE "available"

\* the step in which turn t fetches the history window and formats it
BuildsContext(t) == turn[t].pc = "BuildingContext" /\ turn'[t].pc = "Invoking"

Holding(t) == turn[t].pc \in {"Invoking", "Sleeping", "InFlight"}

\* the rows of the window turn t fetched
WindowOf(t) == [i \in 1..Len(turn[t].recent) |-> messages[turn[t].recent[i]]]

Aborts(t) == turn[t].pc # "Aborted" /\ turn'[t].pc = "Aborted"

\* C21: the orchestrator swallows no error.  A failing step ends the turn in
\* Aborted with the error's kind: 404 for a conversation that does not exist
\* or is another user's, 400 for one that is not active, 500 for a failure of
\* the gateway or of the store (a cancelled request gets no response).  The
\* step that aborts undoes no write, and an aborted turn takes no further
\* step and writes nothing more.
C21_NoErrorSwallowed ==
    /\ [][\A t \in Turns :
            /\ ConnectFail(t) => turn'[t].pc = "Aborted"
            /\ StoreFail(t) => turn'[t].pc = "Aborted"
            /\ \A http_ok \in BOOLEAN, response_data \in ResponseBodies :
                  ((~http_ok \/ EmptyBody(response_data)) /\ Respond(t, http_ok, response_data))
                      => turn'[t].pc = "Aborted"]_vars
    /\ [][\A t \in Turns : Aborts(t) =>
            /\ messages' = messages
            /\ conversations' = conversations
            /\ turn[t].pc = "Idle" =>
                  \A user \in Users, request \in ChatRequests(RequestIds) :
                     LET c == request.conversation_id
                     IN  /\ ResolveFail(t, user, request) =>
                               turn'[t].status_code = HTTP_500_INTERNAL_SERVER_ERROR
                         /\ ResolveOrCreate(t, user, request) =>
                               turn'[t].status_code =
                                   IF ~Exists(conversations, c) \/ conversations[c].user_id # user
                                   THEN HTTP_404_NOT_FOUND
                                   ELSE HTTP_400_BAD_REQUEST
            /\ turn[t].pc # "Idle" =>
                  \/ turn'[t].status_code = HTTP_500_INTERNAL_SERVER_ERROR
                  \/ turn'[t].detail = "cancelled" /\ turn'[t].status_code = 0]_vars
    /\ [][\A t \in Turns : turn[t].pc = "Aborted" =>
            /\ turn'[t] = turn[t]
            /\ MessagesBy(messages', t) = MessagesBy(messages, t)]_vars

\* a turn has aborted on a failure of the store after both its messages were
\* written, and they are in the log
C21_Witness ==
    \E t \in Turns :
        /\ turn[t].pc = "Aborted"
        /\ turn[t].detail = "store operation failed"
        /\ Cardinality(MessagesBy(messages, t)) = 2

\* turn a has entered the rate limiter before turn b and waits: b enters in
\* this step, or b's wait ends later than a's (last_request_time never
\* decreases, so the later wait was computed later)
WaitsAhead(a, b) ==
    /\ a # b
    /\ turn[a].pc = "Sleeping"
    /\ \/ turn[b].pc = "Invoking"
       \/ turn[b].pc = "Sleeping" /\ turn[a].wake_at < turn[b].wake_at

\* the step in which the request of turn t is sent to the provider
Dispatches(t) == turn[t].dispatched_at = 0 /\ turn'[t].dispatched_at # 0

\* C22: gateway calls are sent in the order in which they entered the rate
\* limiter: when the request of a call is sent, no call that entered the
\* limiter before it is still waiting to be sent.
C22_ArrivalOrder ==
    [][\A a, b \in Turns : Dispatches(b) => ~WaitsAhead(a, b)]_vars

\* turn t is inside the rate limiter's sequence: it has read
\* last_request_time and has not yet written it
InSequence(t) == turn[t].pc \in {"Sleeping", "InFlight"}

\* the step in which turn t reads last_request_time (on entering
\* _make_request) or writes it (on the arrival of the response)
TouchesStamp(t) ==
    \/ turn[t].pc = "Invoking" /\ turn'[t].pc \in {"Sleeping", "InFlight"}
    \/ \E http_ok \in BOOLEAN, response_data \in ResponseBodies :
          Respond(t, http_ok, response_data)

\* C23: the wait-then-stamp sequence of the rate limiter is atomic per
\* caller: while one caller is between its read of last_request_time and its
\* write of it, no other caller reads or writes last_request_time.
C23_WaitThenStampAtomic ==
    [][\A a, b \in Turns :
          (a # b /\ InSequence(a)) => ~TouchesStamp(b)]_vars

C25_SoftDelete ==
    [][Requests =>
          \A user \in Users, c \in RequestIds \cap {resp'.conversation_id} :
              DeleteConversation(user, c) =>
                  /\ messages' = messages
                  /\ DOMAIN conversations' = DOMAIN conversations
                  /\ \A d \in DOMAIN conversations :
                        IF d = c /\ conversations[c].user_id = user
                        THEN conversations'[d] = [conversations[d] EXCEPT !.status = DELETED]
                        ELSE conversations'[d] = conversations[d]]_vars

\* the owner's delete was answered 200 and the conversation, now deleted,
\* still holds its two messages and counts them
C25_Witness ==
    /\ resp.status_code = HTTP_200_OK
    /\ Exists(conversations, resp.conversation_id)
    /\ conversations[resp.conversation_id].status = DELETED
    /\ conversations[resp.conversation_id].message_count = 2
    /\ Cardinality(MessagesOf(messages, resp.conversation_id)) = 2

\* C26: the owner of a conversation never changes: no step of any request
\* changes the user_id of a row, and an update leaves every row as it was
\* except for the title, the status and the system prompt of the row it names.
C26_OwnerImmutable ==
    /\ [][\A c \in DOMAIN conversations :
            /\ c \in DOMAIN conversations'
            /\ conversations'[c].user_id = conversations[c].user_id]_vars
    /\ [][(Requests /\ conversations' # conversations) =>
            \A user \in Users, c \in RequestIds \cap {resp'.conversation_id},
               update_data \in UpdateBodies :
                UpdateConversation(user, c, update_data) =>
                    \A d \in DOMAIN conversations :
                        [conversations'[d] EXCEPT
                            !.title = conversations[d].title,
                            !.status = conversations[d].status,
                            !.system_prompt = conversations[d].system_prompt]
                        = conversations[d]]_vars

\* a conversation whose title and system prompt its owner has updated is
\* still owned by the user whose chat turn created it
C26_Witness ==
    \E c \in DOMAIN conversations, t \in Turns :
        /\ conversations[c].title = NewTitle
        /\ conversations[c].system_prompt = NewPrompt
        /\ resp.status_code = HTTP_200_OK
        /\ resp.conversation_id = c
        /\ turn[t].pc = "Done"
        /\ \E i \in MessagesBy(messages, t) : messages[i].conversation_id = c
        /\ conversations[c].user_id = turn[t].user

\* the step in which turn t appends a message
Appends(t) ==
    /\ Len(messages') = Len(messages) + 1
    /\ messages'[Len(messages')].turn = t

Searches == Requests /\ "found" \in DOMAIN resp'

\* C28: whatever the query, skip and limit, the message search returns only
\* messages of conversations owned by the calling user, each matching the
\* query, none twice, at most limit of them, newest first.
C28_SearchScope ==
    [][Searches =>
          LET found == resp'.found
              q == resp'.q
          IN  /\ Len(found) <= resp'.limit
              /\ \A i \in 1..Len(found) :
                    /\ found[i] \in DOMAIN messages
                    /\ conversations[messages[found[i]].conversation_id].user_id = resp'.user
                    /\ \E k \in 1..Len(messages[found[i]].content) :
                          Lower(messages[found[i]].content[k]) = Lower(q[1])
              /\ \A i, j \in 1..Len(found) :
                    i < j => /\ found[i] # found[j]
                             /\ messages[found[i]].created_at
                                   >= messages[found[j]].created_at]_vars

\* a search found two messages of different creation times for its caller
\* while the other user has a message that matches the query too
C28_Witness ==
    /\ "found" \in DOMAIN resp
    /\ Len(resp.found) = 2
    /\ messages[resp.found[1]].created_at > messages[resp.found[2]].created_at
    /\ \E i \in DOMAIN messages :
          /\ conversations[messages[i].conversation_id].user_id
                # conversations[messages[resp.found[1]].conversation_id].user_id
          /\ ILike(messages[i].content, AiText)
          /\ ILike(messages[resp.found[1]].content, AiText)

\* C29: the estimated cost of a response is promptTokens / 1e6 times the
\* input rate of the model plus completionTokens / 1e6 times its output rate,
\* with the rates of the pricing table, 1.0 and 2.0 dollars per million
\* tokens for a model that is not in the table, and 0 for a count that the
\* usage does not give.  (Costs in hundred-millionths of a dollar, rates in
\* hundredths of a dollar per million tokens.)
C29_EstimatedCost ==
    [][\A k \in Listings :
          (Returns(k) /\ listing[k].route = "chat" /\ ~listing'[k].response.raised) =>
              LET usage == IF "usage" \in DOMAIN listing'[k].body
                           THEN listing'[k].body.usage ELSE <<>>
                  prompt == IF "prompt_tokens" \in DOMAIN usage
                            THEN usage.prompt_tokens ELSE 0
                  completion == IF "completion_tokens" \in DOMAIN usage
                                THEN usage.completion_tokens ELSE 0
                  model == listing[k].model
                  rates == IF model \in DOMAIN Pricing
                           THEN Pricing[model]
                           ELSE [input |-> 100, output |-> 200]
              IN  /\ listing'[k].response.estimated_cost =
                        prompt * rates.input + completion * rates.output
                  /\ model = "anthropic/claude-3.5-sonnet" =>
                        rates = [input |-> 300, output |-> 1500]]_vars

\* a call for a model that is not in the table was answered with both counts
\* and costs 1200 * 1.0 + 350 * 2.0 dollars per million
C29_Witness ==
    \E k \in Listings :
        /\ listing[k].pc = "Returned"
        /\ listing[k].route = "chat"
        /\ listing[k].model \notin DOMAIN Pricing
        /\ ~listing[k].response.raised
        /\ DOMAIN listing[k].response.usage = {"prompt_tokens", "completion_tokens"}
        /\ listing[k].response.estimated_cost = 190000

\* request k was answered by GET /models from a body of the provider
Listed(k) ==
    /\ listing[k].pc = "Returned"
    /\ listing[k].route = "models"
    /\ ~listing[k].failed

Steps(t) == turn[t].pc \notin {"Idle", "Done", "Aborted"} /\ turn'[t] # turn[t]

\* C31: a chat turn on a conversation changes no other conversation, neither
\* its row with the aggregates nor its messages, and nothing of another
\* request: of what turns on different conversations share, a step of a turn
\* writes only last_request_time.
C31_OtherConversationsUntouched ==
    /\ [][\A t \in Turns : Steps(t) =>
            /\ \A d \in DOMAIN conversations :
                  d # turn[t].conversation_id => Untouched(d)
            /\ DOMAIN conversations' = DOMAIN conversations
            /\ \A i \in DOMAIN messages' \ DOMAIN messages :
                  messages'[i].conversation_id = turn[t].conversation_id
            /\ \A u \in Turns \ {t} : turn'[u] = turn[u]
            /\ now' = now]_vars
    /\ [][\A t \in Turns : Arrives(t) =>
            /\ \A d \in DOMAIN conversations : Untouched(d)
            /\ messages' = messages
            /\ last_request_time' = last_request_time]_vars

\* two turns run on different conversations that both hold a message, and one
\* of the turns has had its response from the gateway
C31_Witness ==
    \E a, b \in Turns :
        /\ turn[a].pc = "AssistantStatsWrite"
        /\ turn[b].pc \in {"Sleeping", "InFlight"}
        /\ turn[a].conversation_id # turn[b].conversation_id
        /\ MessagesOf(messages, turn[a].conversation_id) # {}
        /\ MessagesOf(messages, turn[b].conversation_id) # {}
        /\ conversations[turn[b].conversation_id].message_count = 1

\* the steps of a chat turn, in the order of the handler, each with the
\* steps that may follow it
Successors ==
    [Idle |-> {"PersistingUser", "Aborted"},
     PersistingUser |-> {"UserStatsRead"},
     UserStatsRead |-> {"UserStatsWrite"},
     UserStatsWrite |-> {"BuildingContext"},
     BuildingContext |-> {"Invoking"},
     Invoking |-> {"Sleeping", "InFlight"},
     Sleeping |-> {"InFlight", "Aborted"},
     InFlight |-> {"PersistingAssistant", "Aborted"},
     PersistingAssistant |-> {"AssistantStatsRead"},
     AssistantStatsRead |-> {"AssistantStatsWrite"},
     AssistantStatsWrite |-> {"Done"},
     Done |-> {},
     Aborted |-> {}]

\* the roles of the messages turn t has written, in the order of the writes
RolesBy(t) ==
    LET own == SelectSeq(messages, LAMBDA m : m.turn = t)
    IN  [i \in 1..Len(own) |-> own[i].role]

\* C32: the steps of every chat turn occur in the order resolve-or-create,
\* persist user message, read context, invoke gateway, persist assistant
\* message, return.  The gateway is invoked only by a turn whose user message
\* is stored, and an assistant message is stored only by a turn whose request
\* was sent and answered with a content.
C32_StepOrder ==
    /\ [][\A t \in Turns :
            turn'[t].pc # turn[t].pc => turn'[t].pc \in Successors[turn[t].pc]]_vars
    /\ [](\A t \in Turns :
            /\ turn[t].pc \in {"Idle", "PersistingUser"} => RolesBy(t) = <<>>
            /\ turn[t].pc \in {"UserStatsRead", "UserStatsWrite", "BuildingContext",
                               "Invoking", "Sleeping", "InFlight", "PersistingAssistant"}
                  => RolesBy(t) = <<USER>>
            /\ turn[t].pc \in {"AssistantStatsRead", "AssistantStatsWrite", "Done"}
                  => RolesBy(t) = <<USER, ASSISTANT>>
            /\ turn[t].pc = "Aborted" => RolesBy(t) \in {<<>>, <<USER>>}
            /\ turn[t].requests > 0 => RolesBy(t) # <<>>
            /\ turn[t].pc = "PersistingAssistant" =>
                  /\ turn[t].dispatched_at # 0
                  /\ turn[t].content # NoText)

\* a turn has stored its assistant message after its user message, its
\* request having been sent once
C32_Witness ==
    \E t \in Turns :
        /\ turn[t].pc = "Done"
        /\ RolesBy(t) = <<USER, ASSISTANT>>
        /\ turn[t].requests = 1
        /\ turn[t].dispatched_at # 0

\* C33: every outbound call attempt updates last_request_time, also one that
\* fails in the transport before a response arrives: when the call of a turn
\* ends, by a response or by a transport error, last_request_time is not
\* earlier than the time the request was sent.
C33_AttemptStamps ==
    [][\A t \in Turns :
          (/\ turn[t].pc = "InFlight"
           /\ turn'[t].pc # "InFlight"
           /\ turn'[t].detail # "cancelled") =>
              last_request_time' >= turn[t].dispatched_at]_vars

\* C34: every chat turn that has arrived eventually ends, in Done or in
\* Aborted, and stays there; a caller that sleeps in the rate limiter is
\* eventually sent, or its turn ends, also when several callers sleep.
C34_TurnTerminates ==
    /\ \A t \in Turns : (turn[t].pc # "Idle") ~> (turn[t].pc \in {"Done", "Aborted"})
    /\ \A t \in Turns : (turn[t].pc = "Sleeping") ~> (turn[t].pc # "Sleeping")
    /\ [][\A t \in Turns : turn[t].pc \in {"Done", "Aborted"} => turn'[t] = turn[t]]_vars

\* two turns whose requests were sent at the same time, after a wait for the
\* clock, have both ended
C34_Witness ==
    \E a, b \in Turns :
        /\ a # b
        /\ turn[a].pc = "Done"
        /\ turn[b].pc \in {"Done", "Aborted"}
        /\ turn[a].dispatched_at > rate_limit_delay
        /\ turn[a].dispatched_at = turn[b].dispatched_at

AbortsNewAtGateway(t) ==
    /\ turn[t].pc \in {"Sleeping", "InFlight"}
    /\ turn'[t].pc = "Aborted"
    /\ turn[t].conversation_ref = 0

\* the conversation of turn t is still there after the step, active and owned
\* by the caller, with the user message of the turn and no assistant message
\* of it
NewConversationKept(t) ==
    LET c == turn[t].conversation_id
    IN  /\ Exists(conversations', c)
        /\ conversations'[c].user_id = turn[t].user
        /\ conversations'[c].status = ACTIVE
        /\ conversations'[c].title = TitleOf(turn[t].message)
        /\ \E i \in MessagesOf(messages', c) :
              /\ MessagesBy(messages', t) = {i}
              /\ messages'[i].role = USER
              /\ messages'[i].content = turn[t].message

====
